---------------------------- MODULE Spec2Model ----------------------------
(***************************************************************************)
(* Stock ledger and sale settlement of gestion_stock_api (Django / DRF).   *)
(*                                                                         *)
(* The request handlers of apps/stocks/views.py and apps/ventes/views.py   *)
(* run concurrently against one relational database.  A handler is a       *)
(* sequence of SQL statements; the model cuts it into steps at the         *)
(* statements where another request can make a difference: every SELECT    *)
(* that follows a SELECT, and every UPDATE/INSERT that can wait for a row  *)
(* lock.  A handler decorated with @transaction.atomic buffers its writes  *)
(* in tx[r] and publishes them at commit (READ COMMITTED: nobody else sees *)
(* them before); a handler without the decorator runs in autocommit mode   *)
(* and publishes each statement at once.  Model.save() writes every column *)
(* of the row from the Python object, whatever was read when.              *)
(***************************************************************************)
EXTENDS Integers, Sequences, FiniteSets, TLC

\* ------------------------------------------------------------------ bounds
\* Largest quantity a request asks for and largest initial balance.
MaxQte == 2

\* The catalogue and the stores the requests range over.
Produits == {"A", "B"}
Magasins == {"S1", "S2"}
Rows == Produits \X Magasins

\* The concurrent request slots (two clients).
Requetes == {1, 2}

VARIABLES
    stocks,       \* committed Stock rows: Rows -> stock record (existe = FALSE: no row)
    mouvements,   \* committed MouvementStock rows, in commit order
    ventes,       \* committed Vente rows with their LigneVente rows, by id
    historique,   \* committed Historique rows (type_action, by request)
    prix_vente,   \* Produit.prix_vente
    verrous,      \* row locks of the open transactions: Rows -> holder or 0
    pc,           \* position of each request in its handler
    requete,      \* the request each slot is serving (validated payload)
    loc,          \* the handler's Python locals (objects read from the database)
    tx,           \* the uncommitted writes of the request's transaction
    resultat,     \* outcome of the request
    depart        \* the Stock table before the first request (never written)

vars == <<stocks, mouvements, ventes, historique, prix_vente, verrous,
          pc, requete, loc, tx, resultat, depart>>

\* What no stock or sale handler writes.
fixe == <<prix_vente, depart>>

base == <<stocks, mouvements, ventes, historique, fixe, verrous>>

\* --------------------------------------------------------------- records
Absent == [existe |-> FALSE, quantite |-> 0, quantite_reservee |-> 0,
           last_inventory_date |-> 0]

\* A row created with one unit more than asked for.
NouveauStock_plein(q) == [existe |-> TRUE, quantite |-> q + 1, quantite_reservee |-> 0,
                          last_inventory_date |-> 0]

NouveauStock(q) == [existe |-> TRUE, quantite |-> q, quantite_reservee |-> 0,
                    last_inventory_date |-> 0]

VenteNulle == [existe |-> FALSE, numero_vente |-> <<>>, magasin |-> "S1",
               statut |-> "EN_COURS", est_annulee |-> FALSE,
               montant_total |-> 0, montant_paye |-> 0,
               date_annulation |-> 0, motif_annulation |-> "",
               annulee_par |-> 0, lignes |-> <<>>, creee_par |-> 0]

RequeteVide == [op |-> "", produit |-> "A", magasin |-> "S1",
                magasin_destination |-> "S1", quantite |-> 0,
                quantite_reservee |-> 0, lignes |-> <<>>, montant_paye |-> 0,
                vente |-> 0, statut |-> "", montant_total |-> -1, motif |-> "",
                prix_vente |-> 0, ligne |-> 0]

LocVide == [stock |-> Absent, stock_destination |-> Absent, vente |-> VenteNulle,
            i |-> 1, lignes_objets |-> <<>>, montant_total |-> 0,
            numero_vente |-> <<>>]

TxVide == [stocks |-> <<>>, mvts |-> <<>>, hist |-> <<>>, vente |-> VenteNulle,
           maj |-> <<>>]

\* A movement logged without its destination store.
Mouvement_sans_destination(row, type, q, avant, apres, dest, v, r) ==
    [stock |-> row, type_mouvement |-> type, quantite |-> q,
     quantite_avant |-> avant, quantite_apres |-> apres,
     magasin_destination |-> "", vente |-> v, req |-> r]

Mouvement(row, type, q, avant, apres, dest, v, r) ==
    [stock |-> row, type_mouvement |-> type, quantite |-> q,
     quantite_avant |-> avant, quantite_apres |-> apres,
     magasin_destination |-> dest, vente |-> v, req |-> r]

\* vente = -1 in a buffered movement: the Vente inserted by the same transaction.
CetteVente == -1

\* ---------------------------------------------------------- Stock model
quantite_disponible(s) == s.quantite - s.quantite_reservee

\* Stock.save without its self.clean() call.
clean_oubliee(s) == TRUE

\* Stock.clean that tolerates one reserved unit more than the quantity.
clean_large(s) == ~(s.quantite_reservee > s.quantite + 1)

\* Stock.clean: TRUE when the object may be saved.
clean(s) == ~(s.quantite_reservee > s.quantite)

\* --------------------------------------------------------- transactions
\* A read that misses the transaction's own writes.
Vue_sans_ecritures(r, row) == stocks[row]

\* What request r sees of a Stock row: its own uncommitted write, else the
\* committed row.
Vue(r, row) == IF row \in DOMAIN tx[r].stocks THEN tx[r].stocks[row] ELSE stocks[row]

Libre(r, row) == verrous[row] \in {0, r}

Relacher(r) == [row \in Rows |-> IF verrous[row] = r THEN 0 ELSE verrous[row]]

ResoudreVente(m, id) == IF m.vente = CetteVente THEN [m EXCEPT !.vente = id] ELSE m

\* The committed tables once the writes t of request r are published.
StocksApres(t) ==
    [row \in Rows |-> IF row \in DOMAIN t.stocks THEN t.stocks[row] ELSE stocks[row]]

VentesApres(t) ==
    LET maj == [id \in DOMAIN ventes |->
                  IF id \in DOMAIN t.maj THEN t.maj[id] ELSE ventes[id]]
    IN  IF t.vente.existe THEN Append(maj, t.vente) ELSE maj

MouvementsApres(t) ==
    LET id == Len(ventes) + 1
    IN  mouvements \o [k \in DOMAIN t.mvts |-> ResoudreVente(t.mvts[k], id)]

\* A failed block without transaction.atomic: the writes made so far stay.
ApresEchec_sans_atomic(t) == t

\* What of a failed transaction's writes reaches the database: nothing
\* (transaction.atomic rolls the block back when an exception leaves it).
ApresEchec(t) == TxVide

\* The writes t of request r reach the database and r's locks are released.
Appliquer(r, t) ==
    /\ stocks' = StocksApres(t)
    /\ ventes' = VentesApres(t)
    /\ mouvements' = MouvementsApres(t)
    /\ historique' = historique \o t.hist
    /\ verrous' = Relacher(r)
    /\ tx' = [tx EXCEPT ![r] = TxVide]

Fin(r, res) ==
    /\ resultat' = [resultat EXCEPT ![r] = res]
    /\ pc' = [pc EXCEPT ![r] = "fini"]

\* COMMIT of the writes t of request r; r ends with outcome res.
Publier(r, t, res) == Appliquer(r, t) /\ Fin(r, res)

\* An exception leaves the handler: the transaction is rolled back.
Echec(r, err) == Appliquer(r, ApresEchec(tx[r])) /\ Fin(r, err)

\* ------------------------------------------------------------------ Init
\* Stock rows as src/create_test_data.py leaves them (rows without movements),
\* in any state the update endpoint accepts.
StocksValides ==
    {s \in [existe : {TRUE}, quantite : 0..MaxQte, quantite_reservee : 0..MaxQte,
            last_inventory_date : {0}] : s.quantite_reservee <= s.quantite}

PrixInitial == [p \in Produits |-> IF p = "A" THEN 10 ELSE 5]

\* A sale made before the requests arrive: one line of product A in store S1,
\* paid in full, with the SORTIE movement that VenteCreateSerializer.create logged.
VenteInitiale ==
    [VenteNulle EXCEPT
        !.existe = TRUE, !.numero_vente = <<0, 0, 0, 1>>, !.magasin = "S1",
        !.statut = "VALIDEE", !.montant_total = PrixInitial["A"],
        !.montant_paye = PrixInitial["A"],
        !.lignes = <<[produit |-> "A", quantite |-> 1,
                      prix_unitaire |-> PrixInitial["A"], remise_ligne |-> 0]>>]

MouvementInitial(q) == Mouvement(<<"A", "S1">>, "SORTIE", 1, q + 1, q, "", 1, 0)

\* MouvementStock.stock is on_delete=CASCADE: a Stock row deleted since the
\* sale took its movements with it.
MouvementsInitiaux(s) == IF s.existe THEN <<MouvementInitial(s.quantite)>> ELSE <<>>

InitCommun ==
    /\ historique = <<>>
    /\ prix_vente = PrixInitial
    /\ verrous = [row \in Rows |-> 0]
    /\ pc = [r \in Requetes |-> "repos"]
    /\ requete = [r \in Requetes |-> RequeteVide]
    /\ loc = [r \in Requetes |-> LocVide]
    /\ tx = [r \in Requetes |-> TxVide]
    /\ resultat = [r \in Requetes |-> ""]

\* A request arrives on an idle slot.
Debut(r, menu) ==
    /\ pc[r] = "repos"
    /\ \E q \in menu :
          /\ requete' = [requete EXCEPT ![r] = q]
          /\ pc' = [pc EXCEPT ![r] = q.op]
    /\ UNCHANGED <<base, loc, tx, resultat>>

\* ------------------------------------------- StockViewSet.reapprovisionner
\* ReapprovisionnementSerializer + Stock.objects.get_or_create.
ReapproLire(r) ==
    LET q == requete[r]
        row == <<q.produit, q.magasin>>
    IN  /\ pc[r] = "reapprovisionner"
        /\ IF q.quantite < 1
           THEN /\ Echec(r, "ValidationError")
                /\ UNCHANGED <<fixe, requete, loc>>
           ELSE /\ stocks[row].existe \/ Libre(r, row)
                /\ IF stocks[row].existe
                   THEN /\ loc' = [loc EXCEPT ![r].stock = stocks[row]]
                        /\ UNCHANGED <<tx, verrous>>
                   ELSE /\ loc' = [loc EXCEPT ![r].stock = NouveauStock(0)]
                        /\ tx' = [tx EXCEPT ![r].stocks = (row :> NouveauStock(0)) @@ @]
                        /\ verrous' = [verrous EXCEPT ![row] = r]
                /\ pc' = [pc EXCEPT ![r] = "reappro_ecrire"]
                /\ UNCHANGED <<stocks, mouvements, ventes, historique, fixe,
                               requete, resultat>>

\* stock.quantite += quantite; stock.save(); MouvementStock ENTREE; Historique; commit.
ReapproEcrire(r) ==
    LET q == requete[r]
        row == <<q.produit, q.magasin>>
        avant == loc[r].stock.quantite
        s == [loc[r].stock EXCEPT !.quantite = @ + q.quantite]
        t == [tx[r] EXCEPT
                !.stocks = (row :> s) @@ @,
                !.mvts = Append(@, Mouvement(row, "ENTREE", q.quantite, avant,
                                             s.quantite, "", 0, r)),
                !.hist = Append(@, [type_action |-> "STOCK_REAPPROVISIONNE", req |-> r])]
    IN  /\ pc[r] = "reappro_ecrire"
        /\ Libre(r, row)
        /\ IF clean(s) THEN Publier(r, t, "OK") ELSE Echec(r, "ValidationError")
        /\ UNCHANGED <<fixe, requete, loc>>

\* ---------------------------------- StockViewSet.create / perform_create
\* These handlers carry no @transaction.atomic: each statement commits alone.
NonFourni == -100

\* StockCreateSerializer: quantite >= 0 (MinValueValidator), no row for the pair.
StockCreateValider(r) ==
    LET q == requete[r]
        row == <<q.produit, q.magasin>>
    IN  /\ pc[r] = "stock_create"
        /\ IF q.quantite < 0 \/ stocks[row].existe
           THEN Echec(r, "ValidationError")
           ELSE /\ pc' = [pc EXCEPT ![r] = "stock_create_inserer"]
                /\ UNCHANGED <<base, tx, resultat>>
        /\ UNCHANGED <<fixe, requete, loc>>

\* stock = serializer.save(): INSERT, unique (produit, magasin).
StockCreateInserer(r) ==
    LET q == requete[r]
        row == <<q.produit, q.magasin>>
        s == NouveauStock(q.quantite)
    IN  /\ pc[r] = "stock_create_inserer"
        /\ Libre(r, row)
        /\ IF stocks[row].existe
           THEN /\ Echec(r, "IntegrityError")
                /\ UNCHANGED loc
           ELSE IF ~clean(s)
           THEN /\ Echec(r, "ValidationError")
                /\ UNCHANGED loc
           ELSE /\ Appliquer(r, [TxVide EXCEPT !.stocks = (row :> s)])
                /\ loc' = [loc EXCEPT ![r].stock = s]
                /\ pc' = [pc EXCEPT ![r] = "stock_create_historique"]
                /\ UNCHANGED resultat
        /\ UNCHANGED <<fixe, requete>>

StockCreateHistorique(r) ==
    /\ pc[r] = "stock_create_historique"
    /\ Appliquer(r, [TxVide EXCEPT
           !.hist = <<[type_action |-> "STOCK_REAPPROVISIONNE", req |-> r]>>])
    /\ pc' = [pc EXCEPT ![r] = "stock_create_mouvement"]
    /\ UNCHANGED <<fixe, requete, loc, resultat>>

StockCreateMouvement(r) ==
    LET q == requete[r]
        row == <<q.produit, q.magasin>>
        s == loc[r].stock
    IN  /\ pc[r] = "stock_create_mouvement"
        /\ Publier(r, [TxVide EXCEPT !.mvts =
               <<Mouvement(row, "ENTREE", s.quantite, 0, s.quantite, "", 0, r)>>], "OK")
        /\ UNCHANGED <<fixe, requete, loc>>

\* ------------------------------ StockViewSet.update / partial_update
Fourni(v, defaut) == IF v = NonFourni THEN defaut ELSE v

\* get_object + StockUpdateSerializer (fields >= 0, validate()).
StockUpdateValider(r) ==
    LET q == requete[r]
        row == <<q.produit, q.magasin>>
        instance == stocks[row]
        quantite == Fourni(q.quantite, instance.quantite)
        quantite_reservee == Fourni(q.quantite_reservee, instance.quantite_reservee)
    IN  /\ pc[r] = "stock_update"
        /\ IF ~instance.existe
           THEN /\ Echec(r, "Http404")
                /\ UNCHANGED loc
           ELSE IF \/ (q.quantite # NonFourni /\ q.quantite < 0)
                   \/ (q.quantite_reservee # NonFourni /\ q.quantite_reservee < 0)
                   \/ quantite_reservee > quantite
           THEN /\ Echec(r, "ValidationError")
                /\ UNCHANGED loc
           ELSE /\ loc' = [loc EXCEPT ![r].stock =
                              [instance EXCEPT !.quantite = quantite,
                                               !.quantite_reservee = quantite_reservee]]
                /\ pc' = [pc EXCEPT ![r] = "stock_update_ecrire"]
                /\ UNCHANGED <<base, tx, resultat>>
        /\ UNCHANGED <<fixe, requete>>

\* serializer.save(): instance.save() writes the whole row.
StockUpdateEcrire(r) ==
    LET q == requete[r]
        row == <<q.produit, q.magasin>>
        s == loc[r].stock
    IN  /\ pc[r] = "stock_update_ecrire"
        /\ Libre(r, row)
        /\ IF clean(s)
           THEN Publier(r, [TxVide EXCEPT !.stocks = (row :> s)], "OK")
           ELSE Echec(r, "ValidationError")
        /\ UNCHANGED <<fixe, requete, loc>>

\* ------------------------------------------------ StockViewSet.transferer
\* TransfertStockSerializer, then the source row is read and checked.
\* A serializer whose validate() accepts the same store on both sides.
TransfertStockSerializer_sans_validate(q) == q.quantite >= 1

\* TransfertStockSerializer: quantite has min_value 1, validate() refuses a
\* destination equal to the source.
TransfertStockSerializer(q) ==
    q.quantite >= 1 /\ q.magasin # q.magasin_destination

\* The source check made on the quantity in stock, reserved units included.
stock_source_suffisant_sans_reserve(q) ==
    LET stock_source == stocks[<<q.produit, q.magasin>>]
    IN  stock_source.existe /\ ~(stock_source.quantite < q.quantite)

\* Stock.objects.get of the source and the quantite_disponible test.
stock_source_suffisant(q) ==
    LET stock_source == stocks[<<q.produit, q.magasin>>]
    IN  stock_source.existe /\ ~(quantite_disponible(stock_source) < q.quantite)

TransfertLireSource(r) ==
    LET q == requete[r]
        src == <<q.produit, q.magasin>>
    IN  /\ pc[r] = "transferer"
        /\ IF ~TransfertStockSerializer(q)
           THEN /\ Echec(r, "ValidationError")
                /\ UNCHANGED loc
           ELSE IF ~stock_source_suffisant(q)
           THEN /\ Echec(r, "StockInsuffisant")
                /\ UNCHANGED loc
           ELSE /\ loc' = [loc EXCEPT ![r].stock = stocks[src]]
                /\ pc' = [pc EXCEPT ![r] = "transfert_source"]
                /\ UNCHANGED <<base, tx, resultat>>
        /\ UNCHANGED <<fixe, requete>>

\* stock_source.save(); MouvementStock TRANSFERT; get_or_create of the destination.
TransfertSource(r) ==
    LET q == requete[r]
        src == <<q.produit, q.magasin>>
        dst == <<q.produit, q.magasin_destination>>
        avant == loc[r].stock.quantite
        s == [loc[r].stock EXCEPT !.quantite = @ - q.quantite]
        d == IF stocks[dst].existe THEN stocks[dst] ELSE NouveauStock(0)
        ecrits == IF stocks[dst].existe THEN (src :> s) ELSE (src :> s) @@ (dst :> d)
    IN  /\ pc[r] = "transfert_source"
        /\ Libre(r, src)
        /\ stocks[dst].existe \/ Libre(r, dst)
        /\ IF ~clean(s)
           THEN /\ Echec(r, "ValidationError")
                /\ UNCHANGED loc
           ELSE /\ tx' = [tx EXCEPT
                     ![r].stocks = ecrits @@ @,
                     ![r].mvts = Append(@, Mouvement(src, "TRANSFERT", q.quantite, avant,
                                           s.quantite, q.magasin_destination, 0, r))]
                /\ verrous' = [row \in Rows |->
                                 IF row \in DOMAIN ecrits THEN r ELSE verrous[row]]
                /\ loc' = [loc EXCEPT ![r].stock = s, ![r].stock_destination = d]
                /\ pc' = [pc EXCEPT ![r] = "transfert_dest"]
                /\ UNCHANGED <<stocks, mouvements, ventes, historique, resultat>>
        /\ UNCHANGED <<fixe, requete>>

\* stock_destination.save(); MouvementStock ENTREE; Historique; commit.
TransfertDest(r) ==
    LET q == requete[r]
        dst == <<q.produit, q.magasin_destination>>
        avant == loc[r].stock_destination.quantite
        d == [loc[r].stock_destination EXCEPT !.quantite = @ + q.quantite]
        t == [tx[r] EXCEPT
                !.stocks = (dst :> d) @@ @,
                !.mvts = Append(@, Mouvement(dst, "ENTREE", q.quantite, avant,
                                             d.quantite, "", 0, r)),
                !.hist = Append(@, [type_action |-> "STOCK_TRANSFERE", req |-> r])]
    IN  /\ pc[r] = "transfert_dest"
        /\ Libre(r, dst)
        /\ IF clean(d) THEN Publier(r, t, "OK") ELSE Echec(r, "ValidationError")
        /\ UNCHANGED <<fixe, requete, loc>>

\* --------------------------------------------------- StockViewSet.ajuster
\* A clock that never moves: nothing is stamped.
Maintenant_arretee(r) == 0

\* timezone.now(): the model's clock reads the number of the request.
Maintenant(r) == r

\* AjustementStockSerializer: the Stock is looked up by primary key.
AjusterLire(r) ==
    LET q == requete[r]
        row == <<q.produit, q.magasin>>
    IN  /\ pc[r] = "ajuster"
        /\ IF q.quantite < 0 \/ q.motif = "" \/ ~stocks[row].existe
           THEN /\ Echec(r, "ValidationError")
                /\ UNCHANGED loc
           ELSE /\ loc' = [loc EXCEPT ![r].stock = stocks[row]]
                /\ pc' = [pc EXCEPT ![r] = "ajuster_ecrire"]
                /\ UNCHANGED <<base, tx, resultat>>
        /\ UNCHANGED <<fixe, requete>>

\* The signed difference logged as it is.
abs_sans_valeur(x) == x

abs(x) == IF x < 0 THEN -x ELSE x

AjusterEcrire(r) ==
    LET q == requete[r]
        row == <<q.produit, q.magasin>>
        quantite_avant == loc[r].stock.quantite
        difference == q.quantite - quantite_avant
        s == [loc[r].stock EXCEPT !.quantite = q.quantite,
                                  !.last_inventory_date = Maintenant(r)]
        t == [tx[r] EXCEPT
                !.stocks = (row :> s) @@ @,
                !.mvts = Append(@, Mouvement(row, "AJUSTEMENT", abs(difference),
                                             quantite_avant, q.quantite, "", 0, r)),
                !.hist = Append(@, [type_action |-> "STOCK_AJUSTE", req |-> r])]
    IN  /\ pc[r] = "ajuster_ecrire"
        /\ Libre(r, row)
        /\ IF clean(s) THEN Publier(r, t, "OK") ELSE Echec(r, "ValidationError")
        /\ UNCHANGED <<fixe, requete, loc>>

\* ------------------------------------------------------------ Vente.save
RECURSIVE Chiffres(_)
Chiffres(n) == IF n < 10 THEN <<n>> ELSE Append(Chiffres(n \div 10), n % 10)

\* f'{new_num:04d}'
Format04d(n) ==
    LET c == Chiffres(n)
    IN  IF Len(c) >= 4 THEN c ELSE [k \in 1..(4 - Len(c)) |-> 0] \o c

RECURSIVE Entier(_)
Entier(c) == IF c = <<>> THEN 0 ELSE 10 * Entier(SubSeq(c, 1, Len(c) - 1)) + c[Len(c)]

\* numero_vente[-4:]
Derniers4(c) == SubSeq(c, Len(c) - 3, Len(c))

\* String order of two numbers of the same day (the "V" + date prefix is shared).
Precede(a, b) ==
    \E k \in 1..(Len(b)) :
        /\ \A j \in 1..(k - 1) : j <= Len(a) /\ a[j] = b[j]
        /\ k > Len(a) \/ a[k] < b[k]

\* The number Vente.save computes from the sales it can see.
NumeroSuivant(vs) ==
    IF vs = <<>> THEN Format04d(1)
    ELSE LET last_vente == CHOOSE i \in DOMAIN vs :
                 \A j \in DOMAIN vs : ~Precede(vs[i].numero_vente, vs[j].numero_vente)
         IN  Format04d(Entier(Derniers4(vs[last_vente].numero_vente)) + 1)

\* ------------------------------------------- VenteCreateSerializer.create
montant_ligne(l) == (l.prix_unitaire * l.quantite) - l.remise_ligne

RECURSIVE Somme(_)
Somme(ls) == IF ls = <<>> THEN 0 ELSE montant_ligne(Head(ls)) + Somme(Tail(ls))

LignesValides(ls) ==
    /\ ls # <<>>
    /\ \A k \in DOMAIN ls : ls[k].quantite >= 1 /\ ls[k].remise_ligne >= 0

\* ligne_data.get('prix_unitaire') or produit.prix_vente
PrixDemande(l) == IF l.prix_unitaire = 0 THEN prix_vente[l.produit] ELSE l.prix_unitaire

\* The check of a line without the comparison of quantities.
Suffisant_sans_quantite(s, quantite) == s.existe

\* Is the stock read for a line enough for it?
Suffisant(s, quantite) == s.existe /\ ~(quantite_disponible(s) < quantite)

\* A lookup by product alone: the row of the sale's store when there is one,
\* else the product's row in any other store.
Stock_objects_get_sans_magasin(produit, magasin) ==
    IF stocks[<<produit, magasin>>].existe THEN stocks[<<produit, magasin>>]
    ELSE IF \E m \in Magasins : stocks[<<produit, m>>].existe
    THEN stocks[<<produit, CHOOSE m \in Magasins : stocks[<<produit, m>>].existe>>]
    ELSE Absent

\* Stock.objects.get(produit=produit, magasin_id=validated_data['magasin'])
Stock_objects_get(produit, magasin) == stocks[<<produit, magasin>>]

\* First loop, one line per step: the line's Stock is read and checked.
VenteVerifier(r) ==
    LET q == requete[r]
        i == loc[r].i
        l == q.lignes[i]
        stock == Stock_objects_get(l.produit, q.magasin)
        ligne_obj == [produit |-> l.produit, quantite |-> l.quantite,
                      prix_unitaire |-> PrixDemande(l),
                      remise_ligne |-> l.remise_ligne, stock |-> stock]
    IN  /\ pc[r] = "vente_create"
        /\ IF ~LignesValides(q.lignes) \/ q.montant_paye < 0
           THEN /\ Echec(r, "ValidationError")
                /\ UNCHANGED loc
           ELSE IF ~Suffisant(stock, l.quantite)
           THEN /\ Echec(r, "StockInsuffisant")
                /\ UNCHANGED loc
           ELSE /\ loc' = [loc EXCEPT
                     ![r].lignes_objets = Append(@, ligne_obj),
                     ![r].montant_total = @ + montant_ligne(ligne_obj),
                     ![r].i = IF i = Len(q.lignes) THEN 1 ELSE i + 1]
                /\ pc' = [pc EXCEPT ![r] =
                            IF i = Len(q.lignes) THEN "vente_numeroter" ELSE "vente_create"]
                /\ UNCHANGED <<base, tx, resultat>>
        /\ UNCHANGED <<fixe, requete>>

\* Vente.save: the last number of the day is read.
VenteNumeroter(r) ==
    /\ pc[r] = "vente_numeroter"
    /\ loc' = [loc EXCEPT ![r].numero_vente = NumeroSuivant(ventes)]
    /\ pc' = [pc EXCEPT ![r] = "vente_inserer"]
    /\ UNCHANGED <<base, requete, tx, resultat>>

NumeroPris(n) == \E id \in DOMAIN ventes : ventes[id].numero_vente = n

\* INSERT of the Vente: numero_vente is unique; the INSERT waits for an
\* uncommitted row with the same number.
VenteInserer(r) ==
    LET q == requete[r]
        n == loc[r].numero_vente
        vente == [VenteNulle EXCEPT
                    !.existe = TRUE, !.numero_vente = n, !.magasin = q.magasin,
                    !.montant_total = loc[r].montant_total,
                    !.montant_paye = q.montant_paye,
                    !.statut = IF q.montant_paye >= loc[r].montant_total
                               THEN "VALIDEE" ELSE "EN_COURS",
                    !.creee_par = r]
    IN  /\ pc[r] = "vente_inserer"
        /\ \A r2 \in Requetes \ {r} :
              ~(tx[r2].vente.existe /\ tx[r2].vente.numero_vente = n)
        /\ IF NumeroPris(n)
           THEN Echec(r, "IntegrityError")
           ELSE /\ tx' = [tx EXCEPT ![r].vente = vente]
                /\ pc' = [pc EXCEPT ![r] = "vente_ligne"]
                /\ UNCHANGED <<base, resultat>>
        /\ UNCHANGED <<fixe, requete, loc>>

\* LigneVente.save: the unit price is set from the product, the line is
\* inserted, and Vente.update_montant_total recomputes the total.
LigneVente_save(vente, l) ==
    LET ligne == [produit |-> l.produit, quantite |-> l.quantite,
                  prix_unitaire |-> prix_vente[l.produit],
                  remise_ligne |-> l.remise_ligne]
        lignes == Append(vente.lignes, ligne)
    IN  [vente EXCEPT !.lignes = lignes, !.montant_total = Somme(lignes)]

\* Second loop, one line per step: LigneVente, stock.save(), MouvementStock
\* SORTIE; after the last line the transaction commits.
VenteLigne(r) ==
    LET q == requete[r]
        i == loc[r].i
        l == loc[r].lignes_objets[i]
        row == <<l.produit, q.magasin>>
        quantite_avant == l.stock.quantite
        s == [l.stock EXCEPT !.quantite = @ - l.quantite]
        t == [tx[r] EXCEPT
                !.vente = LigneVente_save(@, l),
                !.stocks = (row :> s) @@ @,
                !.mvts = Append(@, Mouvement(row, "SORTIE", l.quantite, quantite_avant,
                                             s.quantite, "", CetteVente, r))]
    IN  /\ pc[r] = "vente_ligne"
        /\ Libre(r, row)
        /\ IF ~clean(s)
           THEN /\ Echec(r, "ValidationError")
                /\ UNCHANGED loc
           ELSE IF i = Len(loc[r].lignes_objets)
           THEN /\ Appliquer(r, t)
                /\ resultat' = [resultat EXCEPT ![r] = "OK"]
                /\ pc' = [pc EXCEPT ![r] = "vente_historique"]
                /\ UNCHANGED loc
           ELSE /\ tx' = [tx EXCEPT ![r] = t]
                /\ verrous' = [verrous EXCEPT ![row] = r]
                /\ loc' = [loc EXCEPT ![r].i = i + 1]
                /\ UNCHANGED <<stocks, mouvements, ventes, historique, pc, resultat>>
        /\ UNCHANGED <<fixe, requete>>

\* VenteViewSet.create: the audit row is written after the serializer's
\* transaction has committed.
VenteHistorique(r) ==
    /\ pc[r] = "vente_historique"
    /\ Appliquer(r, [TxVide EXCEPT
           !.hist = <<[type_action |-> "VENTE_EFFECTUEE", req |-> r]>>])
    /\ pc' = [pc EXCEPT ![r] = "fini"]
    /\ UNCHANGED <<fixe, requete, loc, resultat>>

\* --------------------------------------------------- VenteViewSet.annuler
\* get_object (the lines are prefetched), the est_annulee guard and
\* AnnulationVenteSerializer.
AnnulerLire(r) ==
    LET q == requete[r]
    IN  /\ pc[r] = "annuler"
        /\ IF q.vente \notin DOMAIN ventes
           THEN /\ Echec(r, "Http404")
                /\ UNCHANGED loc
           ELSE IF ventes[q.vente].est_annulee
           THEN /\ Echec(r, "VenteAnnulee")
                /\ UNCHANGED loc
           ELSE IF q.motif = ""
           THEN /\ Echec(r, "ValidationError")
                /\ UNCHANGED loc
           ELSE /\ loc' = [loc EXCEPT ![r].vente = ventes[q.vente], ![r].i = 1]
                /\ pc' = [pc EXCEPT ![r] = "annuler_lire_stock"]
                /\ UNCHANGED <<base, tx, resultat>>
        /\ UNCHANGED <<fixe, requete>>

\* Stock.objects.get for the line.
AnnulerLireStock(r) ==
    LET vente == loc[r].vente
        ligne == vente.lignes[loc[r].i]
    IN  /\ pc[r] = "annuler_lire_stock"
        /\ loc' = [loc EXCEPT ![r].stock = Vue(r, <<ligne.produit, vente.magasin>>)]
        /\ pc' = [pc EXCEPT ![r] = "annuler_ecrire_stock"]
        /\ UNCHANGED <<base, requete, tx, resultat>>

\* Vente.annuler that leaves est_annulee as it was.
Vente_annuler_sans_drapeau(vente, r, motif) ==
    [vente EXCEPT !.statut = "ANNULEE",
                  !.date_annulation = Maintenant(r), !.motif_annulation = motif,
                  !.annulee_par = r]

\* Vente.annuler: the guard is evaluated on the object read by get_object;
\* save() writes the whole row.
Vente_annuler(vente, r, motif) ==
    [vente EXCEPT !.est_annulee = TRUE, !.statut = "ANNULEE",
                  !.date_annulation = Maintenant(r), !.motif_annulation = motif,
                  !.annulee_par = r]

\* stock.save() or Stock.objects.create, MouvementStock RETOUR; after the last
\* line vente.annuler, Historique and commit.
AnnulerEcrireStock(r) ==
    LET q == requete[r]
        vente == loc[r].vente
        i == loc[r].i
        ligne == vente.lignes[i]
        row == <<ligne.produit, vente.magasin>>
        stock == loc[r].stock
        quantite_avant == IF stock.existe THEN stock.quantite ELSE 0
        s == IF stock.existe THEN [stock EXCEPT !.quantite = @ + ligne.quantite]
             ELSE NouveauStock(ligne.quantite)
        t1 == [tx[r] EXCEPT
                 !.stocks = (row :> s) @@ @,
                 !.mvts = Append(@, Mouvement(row, "RETOUR", ligne.quantite,
                                    quantite_avant, s.quantite, "", q.vente, r))]
        t2 == [t1 EXCEPT
                 !.maj = (q.vente :> Vente_annuler(vente, r, q.motif)) @@ @,
                 !.hist = Append(@, [type_action |-> "VENTE_ANNULEE", req |-> r])]
    IN  /\ pc[r] = "annuler_ecrire_stock"
        /\ Libre(r, row)
        /\ IF ~stock.existe /\ Vue(r, row).existe
           THEN /\ Echec(r, "IntegrityError")
                /\ UNCHANGED loc
           ELSE IF ~clean(s)
           THEN /\ Echec(r, "ValidationError")
                /\ UNCHANGED loc
           ELSE IF i = Len(vente.lignes)
           THEN /\ Publier(r, t2, "OK")
                /\ UNCHANGED loc
           ELSE /\ tx' = [tx EXCEPT ![r] = t1]
                /\ verrous' = [verrous EXCEPT ![row] = r]
                /\ loc' = [loc EXCEPT ![r].i = i + 1]
                /\ pc' = [pc EXCEPT ![r] = "annuler_lire_stock"]
                /\ UNCHANGED <<stocks, mouvements, ventes, historique, resultat>>
        /\ UNCHANGED <<fixe, requete>>

\* ------------------------------- VenteViewSet.update / partial_update
Statuts == {"EN_COURS", "VALIDEE", "ANNULEE"}

\* get_object + VenteSerializer: statut and montant_total are writable.
VenteUpdateLire(r) ==
    LET q == requete[r]
        instance == ventes[q.vente]
    IN  /\ pc[r] = "vente_update"
        /\ IF q.vente \notin DOMAIN ventes
           THEN /\ Echec(r, "Http404")
                /\ UNCHANGED loc
           ELSE IF \/ (q.statut # "" /\ q.statut \notin Statuts)
                   \/ (q.montant_total # NonFourni /\ q.montant_total < 0)
           THEN /\ Echec(r, "ValidationError")
                /\ UNCHANGED loc
           ELSE /\ loc' = [loc EXCEPT ![r].vente =
                     [instance EXCEPT
                        !.statut = IF q.statut = "" THEN @ ELSE q.statut,
                        !.montant_total = Fourni(q.montant_total, @)]]
                /\ pc' = [pc EXCEPT ![r] = "vente_update_ecrire"]
                /\ UNCHANGED <<base, tx, resultat>>
        /\ UNCHANGED <<fixe, requete>>

\* serializer.save(): instance.save() writes the whole row.
VenteUpdateEcrire(r) ==
    /\ pc[r] = "vente_update_ecrire"
    /\ Publier(r, [TxVide EXCEPT !.maj = (requete[r].vente :> loc[r].vente)], "OK")
    /\ UNCHANGED <<fixe, requete, loc>>

\* ------------------------------------------------------------- deadlock
\* The row the next statement of r has to lock.
Attend(r) ==
    LET q == requete[r]
    IN  CASE pc[r] = "reappro_ecrire" -> {<<q.produit, q.magasin>>}
          [] pc[r] = "ajuster_ecrire" -> {<<q.produit, q.magasin>>}
          [] pc[r] = "transfert_source" -> {<<q.produit, q.magasin>>}
          [] pc[r] = "transfert_dest" -> {<<q.produit, q.magasin_destination>>}
          [] pc[r] = "vente_ligne" ->
                {<<loc[r].lignes_objets[loc[r].i].produit, q.magasin>>}
          [] pc[r] = "annuler_ecrire_stock" ->
                {<<loc[r].vente.lignes[loc[r].i].produit, loc[r].vente.magasin>>}
          [] OTHER -> {}

Bloque(r, r2) == \E row \in Attend(r) : verrous[row] = r2

\* Two transactions wait for each other's row: the database aborts one.
Interblocage(r) ==
    /\ \E r2 \in Requetes \ {r} : Bloque(r, r2) /\ Bloque(r2, r)
    /\ Echec(r, "Deadlock")
    /\ UNCHANGED <<fixe, requete, loc>>

\* ------------------------------------------------------- specifications
Req(op, p, m) == [RequeteVide EXCEPT !.op = op, !.produit = p, !.magasin = m]

Ligne(p, q) == [produit |-> p, quantite |-> q, prix_unitaire |-> 0, remise_ligne |-> 0]

\* Every public operation on product A, two clients at once.
Menu ==
    {[Req("stock_create", "A", "S2") EXCEPT !.quantite = q] : q \in {-1, 0, MaxQte}}
    \cup {[Req("stock_update", "A", "S1") EXCEPT
              !.quantite = u[1], !.quantite_reservee = u[2]] :
          u \in {<<NonFourni, MaxQte>>, <<0, NonFourni>>, <<MaxQte, 1>>,
                 <<NonFourni, -1>>}}
    \cup {[Req("reapprovisionner", "A", m) EXCEPT !.quantite = q] :
          m \in Magasins, q \in {0, 1}}
    \cup {[Req("transferer", "A", m[1]) EXCEPT
              !.magasin_destination = m[2], !.quantite = q] :
          m \in {<<"S1", "S2">>, <<"S2", "S1">>, <<"S1", "S1">>}, q \in {1, MaxQte}}
    \cup {[Req("ajuster", "A", "S1") EXCEPT !.quantite = q, !.motif = "inventaire"] :
          q \in {0, 1}}
    \cup {[Req("vente_create", "A", "S1") EXCEPT !.lignes = ls] :
          ls \in {<<Ligne("A", 1)>>, <<Ligne("A", MaxQte)>>,
                  <<Ligne("A", 1), Ligne("A", 1)>>, <<Ligne("A", 1), Ligne("B", 1)>>,
                  <<[Ligne("A", 1) EXCEPT !.prix_unitaire = 7, !.remise_ligne = 1]>>}}
    \cup {[Req("annuler", "A", "S1") EXCEPT !.vente = 1, !.motif = "erreur"]}
    \cup {[Req("vente_update", "A", "S1") EXCEPT
              !.vente = 1, !.statut = u[1], !.montant_total = u[2]] :
          u \in {<<"VALIDEE", NonFourni>>, <<"", 7>>}}

Init ==
    /\ InitCommun
    /\ \E a \in StocksValides \cup {Absent}, b \in {Absent, NouveauStock(MaxQte)} :
          stocks = [row \in Rows |->
                      IF row = <<"A", "S1">> THEN a
                      ELSE IF row = <<"A", "S2">> THEN b ELSE Absent]
    /\ depart = stocks
    /\ \/ ventes = <<>> /\ mouvements = <<>>
       \/ ventes = <<VenteInitiale>>
          /\ mouvements = MouvementsInitiaux(stocks[<<"A", "S1">>])

Next ==
    \E r \in Requetes :
        \/ Debut(r, Menu)
        \/ StockCreateValider(r) \/ StockCreateInserer(r)
        \/ StockCreateHistorique(r) \/ StockCreateMouvement(r)
        \/ StockUpdateValider(r) \/ StockUpdateEcrire(r)
        \/ ReapproLire(r) \/ ReapproEcrire(r)
        \/ TransfertLireSource(r) \/ TransfertSource(r) \/ TransfertDest(r)
        \/ AjusterLire(r) \/ AjusterEcrire(r)
        \/ VenteVerifier(r) \/ VenteNumeroter(r) \/ VenteInserer(r)
        \/ VenteLigne(r) \/ VenteHistorique(r)
        \/ AnnulerLire(r) \/ AnnulerLireStock(r) \/ AnnulerEcrireStock(r)
        \/ VenteUpdateLire(r) \/ VenteUpdateEcrire(r)
        \/ Interblocage(r)

Spec == Init /\ [][Next]_vars

\* ------------------------------------------- one request after the other
\* Today's latest sale when it is the n-th of the day (Vente.save reads the
\* largest number only, so the earlier ones are left out).
VenteNumerotee(n) == [VenteInitiale EXCEPT !.numero_vente = Format04d(n)]

\* The sales of Menu with a payment, a second product and a price override.
MenuVentes ==
    {[Req("vente_create", "A", "S1") EXCEPT !.lignes = u[1], !.montant_paye = u[2]] :
     u \in {<<<<Ligne("A", 1)>>, 10>>,
            <<<<Ligne("A", 1), Ligne("B", 1)>>, 15>>,
            <<<<Ligne("B", MaxQte)>>, 1>>,
            <<<<[Ligne("A", 1) EXCEPT !.prix_unitaire = 7, !.remise_ligne = 1]>>, 6>>}}

MenuSeq == Menu \cup MenuVentes

InitSeq ==
    /\ InitCommun
    /\ \E a \in StocksValides \cup {Absent}, b \in {Absent, NouveauStock(MaxQte)},
          c \in {Absent, NouveauStock(MaxQte)} :
          stocks = [row \in Rows |->
                      IF row = <<"A", "S1">> THEN a
                      ELSE IF row = <<"A", "S2">> THEN b
                      ELSE IF row = <<"B", "S1">> THEN c ELSE Absent]
    /\ depart = stocks
    /\ \/ ventes = <<>> /\ mouvements = <<>>
       \/ \E n \in {1, 9998, 9999} :
             /\ ventes = <<VenteNumerotee(n)>>
             /\ mouvements = MouvementsInitiaux(stocks[<<"A", "S1">>])

\* The second request arrives when the first has been answered.
NextSeq ==
    \/ Debut(1, MenuSeq)
    \/ pc[1] = "fini" /\ Debut(2, MenuSeq)
    \/ \E r \in Requetes :
        \/ StockCreateValider(r) \/ StockCreateInserer(r)
        \/ StockCreateHistorique(r) \/ StockCreateMouvement(r)
        \/ StockUpdateValider(r) \/ StockUpdateEcrire(r)
        \/ ReapproLire(r) \/ ReapproEcrire(r)
        \/ TransfertLireSource(r) \/ TransfertSource(r) \/ TransfertDest(r)
        \/ AjusterLire(r) \/ AjusterEcrire(r)
        \/ VenteVerifier(r) \/ VenteNumeroter(r) \/ VenteInserer(r)
        \/ VenteLigne(r) \/ VenteHistorique(r)
        \/ AnnulerLire(r) \/ AnnulerLireStock(r) \/ AnnulerEcrireStock(r)
        \/ VenteUpdateLire(r) \/ VenteUpdateEcrire(r)

SpecSeq == InitSeq /\ [][NextSeq]_vars

\* ----------------------------------------------------------------- C1
\* C1: in every reachable state every Stock row satisfies
\* 0 <= quantite_reservee <= quantite.
C1_ReserveBornee ==
    \A row \in Rows :
        stocks[row].existe =>
            /\ 0 <= stocks[row].quantite_reservee
            /\ stocks[row].quantite_reservee <= stocks[row].quantite

\* A debit (sale or transfer) committed on a row that carries a reservation,
\* leaving the reservation equal to the balance.
C1_Temoin ==
    \E r \in Requetes, row \in Rows :
        /\ requete[r].op \in {"vente_create", "transferer"}
        /\ resultat[r] = "OK"
        /\ \E k \in DOMAIN mouvements :
              mouvements[k].req = r /\ mouvements[k].stock = row
        /\ stocks[row].existe
        /\ stocks[row].quantite_reservee > 0
        /\ stocks[row].quantite_reservee = stocks[row].quantite

\* ----------------------------------------------------------------- C2
\* Two clients each ask for the whole balance of the one stocked row.
MenuC2 ==
    {[Req("vente_create", row[1], row[2]) EXCEPT
         !.lignes = <<Ligne(row[1], depart[row].quantite)>>] :
     row \in {x \in Rows : depart[x].existe}}

InitC2 ==
    /\ InitCommun
    /\ \E row \in Rows, q \in 1..MaxQte :
          stocks = [x \in Rows |-> IF x = row THEN NouveauStock(q) ELSE Absent]
    /\ depart = stocks
    /\ ventes = <<>>
    /\ mouvements = <<>>

NextC2 ==
    \E r \in Requetes :
        \/ Debut(r, MenuC2)
        \/ VenteVerifier(r) \/ VenteNumeroter(r) \/ VenteInserer(r)
        \/ VenteLigne(r) \/ VenteHistorique(r)

SpecC2 == InitC2 /\ [][NextC2]_vars

\* C2: of two concurrent sales that each ask for the whole balance q of the
\* same row, exactly one succeeds, the balance ends at 0 and is never
\* negative.  (The kind of the other's failure is left open here: a state
\* that refutes this refutes the claim, which also names the failure.)
C2_UnSeulDebit ==
    /\ \A row \in Rows : stocks[row].quantite >= 0
    /\ (\A r \in Requetes : pc[r] = "fini") =>
          /\ Cardinality({r \in Requetes : resultat[r] = "OK"}) = 1
          /\ \A row \in Rows : depart[row].existe => stocks[row].quantite = 0

\* ----------------------------------------------------------------- C3
\* One client creates a sale; when it is done a second one cancels it.
MenuC3 ==
    {[Req("vente_create", "A", "S1") EXCEPT !.lignes = ls] :
     ls \in {<<Ligne("A", 1)>>, <<Ligne("A", MaxQte)>>, <<Ligne("B", 1)>>,
             <<Ligne("A", 1), Ligne("B", 1)>>, <<Ligne("A", 1), Ligne("A", 1)>>}}

InitC3 ==
    /\ InitCommun
    /\ \E a \in 1..MaxQte, b \in 1..MaxQte :
          stocks = [x \in Rows |->
                      IF x = <<"A", "S1">> THEN NouveauStock(a)
                      ELSE IF x = <<"B", "S1">> THEN NouveauStock(b) ELSE Absent]
    /\ depart = stocks
    /\ ventes = <<>>
    /\ mouvements = <<>>

NextC3 ==
    \/ Debut(1, MenuC3)
    \/ pc[1] = "fini" /\ resultat[1] = "OK"
       /\ Debut(2, {[Req("annuler", "A", "S1") EXCEPT !.vente = 1, !.motif = "erreur"]})
    \/ \E r \in Requetes :
        \/ VenteVerifier(r) \/ VenteNumeroter(r) \/ VenteInserer(r)
        \/ VenteLigne(r) \/ VenteHistorique(r)
        \/ AnnulerLire(r) \/ AnnulerLireStock(r) \/ AnnulerEcrireStock(r)

SpecC3 == InitC3 /\ [][NextC3]_vars

\* C3: once the sale created from any accepted list of lines has been
\* cancelled, every Stock row has the quantity it had before the sale.
C3_AnnulationRestaure ==
    (resultat[1] = "OK" /\ pc[2] = "fini" /\ resultat[2] = "OK") =>
        \A row \in Rows : stocks[row].quantite = depart[row].quantite

\* ----------------------------------------------------------------- C4
\* C4: every sale that is not cancelled has montant_total equal to the sum of
\* its lines' (prix_unitaire * quantite - remise_ligne).
C4_TotalEgalSomme ==
    \A id \in DOMAIN ventes :
        ventes[id].statut # "ANNULEE" =>
            ventes[id].montant_total = Somme(ventes[id].lignes)

\* ----------------------------------------------------------------- C5
NbMouvements(ms, row) == Cardinality({k \in DOMAIN ms : ms[k].stock = row})

\* C5: a step that changes a Stock row's committed quantity (a missing row
\* counts as quantity 0) logs a movement for that row in the same step, and a
\* step that logs a movement for a row writes that row.
C5_MouvementParChangement ==
    [][\A row \in Rows :
          LET nouveaux == NbMouvements(mouvements', row) - NbMouvements(mouvements, row)
          IN  /\ stocks'[row].quantite # stocks[row].quantite => nouveaux >= 1
              /\ nouveaux >= 1 => stocks'[row] # stocks[row]]_vars

\* ----------------------------------------------------------------- C6
\* C6: the committed tables change in one step of a transfer only, its commit:
\* that step appends the TRANSFERT and the ENTREE movement together and
\* publishes both balances; every other step of a transfer, a failing one
\* included, leaves balances, movements and audit rows as they were.
C6_TransfertAtomique ==
    [][\A r \in Requetes :
          (requete[r].op = "transferer" /\ pc'[r] # pc[r]) =>
              LET q == requete[r]
                  src == <<q.produit, q.magasin>>
                  dst == <<q.produit, q.magasin_destination>>
                  n == Len(mouvements)
              IN  IF resultat'[r] = "OK"
                  THEN /\ Len(mouvements') = n + 2
                       /\ mouvements'[n + 1].type_mouvement = "TRANSFERT"
                       /\ mouvements'[n + 1].stock = src
                       /\ mouvements'[n + 1].magasin_destination = q.magasin_destination
                       /\ mouvements'[n + 2].type_mouvement = "ENTREE"
                       /\ mouvements'[n + 2].stock = dst
                       /\ stocks'[src].quantite = mouvements'[n + 1].quantite_apres
                       /\ stocks'[dst].existe
                       /\ stocks'[dst].quantite = mouvements'[n + 2].quantite_apres
                  ELSE /\ stocks' = stocks
                       /\ mouvements' = mouvements
                       /\ historique' = historique]_vars

\* One transfer committed while the opposite one, which had already debited
\* its source, was aborted.
C6_Temoin ==
    \E r \in Requetes, r2 \in Requetes :
        /\ requete[r].op = "transferer" /\ resultat[r] = "OK"
        /\ requete[r2].op = "transferer" /\ resultat[r2] = "Deadlock"
        /\ Len(mouvements) = 2

\* ----------------------------------------------------------------- C7
\* C7: a sale one of whose lines finds no Stock row, or less available than it
\* asks for, ends with StockInsuffisant, and a sale that ends so has persisted
\* nothing: no step of it changed a balance, and no Vente, movement or audit
\* row of it exists.
C7_EchecSansEffet ==
    [][\A r \in Requetes :
          (requete[r].op = "vente_create" /\
           (pc'[r] # pc[r] \/ loc'[r] # loc[r])) =>
              LET q == requete[r]
                  l == q.lignes[loc[r].i]
                  s == stocks[<<l.produit, q.magasin>>]
              IN  /\ (pc[r] = "vente_create" /\ LignesValides(q.lignes)
                      /\ q.montant_paye >= 0
                      /\ (~s.existe \/ s.quantite - s.quantite_reservee < l.quantite))
                        => resultat'[r] = "StockInsuffisant"
                  /\ resultat'[r] = "StockInsuffisant" =>
                        /\ stocks' = stocks /\ ventes' = ventes
                        /\ mouvements' = mouvements /\ historique' = historique
                        /\ \A id \in DOMAIN ventes : ventes[id].creee_par # r
                        /\ \A k \in DOMAIN mouvements : mouvements[k].req # r
                        /\ \A k \in DOMAIN historique : historique[k].req # r]_vars

\* A two-line sale whose first line had enough stock and whose second failed.
C7_Temoin ==
    \E r \in Requetes :
        /\ requete[r].op = "vente_create"
        /\ resultat[r] = "StockInsuffisant"
        /\ Len(loc[r].lignes_objets) = 1
        /\ Len(requete[r].lignes) = 2

\* ----------------------------------------------------------------- C8
\* C8: at most one RETOUR movement per line of a sale refers to the sale.
C8_UnSeulRetour ==
    \A id \in DOMAIN ventes :
        Cardinality({k \in DOMAIN mouvements :
                        /\ mouvements[k].type_mouvement = "RETOUR"
                        /\ mouvements[k].vente = id}) <= Len(ventes[id].lignes)

\* ----------------------------------------------------------------- C9
\* C9: a sale's status only moves EN_COURS -> VALIDEE, EN_COURS -> ANNULEE or
\* VALIDEE -> ANNULEE; ANNULEE is never left.
C9_StatutTerminal ==
    [][\A id \in DOMAIN ventes :
          \/ ventes'[id].statut = ventes[id].statut
          \/ <<ventes[id].statut, ventes'[id].statut>> \in
                {<<"EN_COURS", "VALIDEE">>, <<"EN_COURS", "ANNULEE">>,
                 <<"VALIDEE", "ANNULEE">>}]_vars

\* ---------------------------------------------------------------- C10
\* C10: no sale creation fails on the uniqueness of numero_vente.
C10_NumeroSansConflit ==
    \A r \in Requetes :
        ~(requete[r].op = "vente_create" /\ resultat[r] = "IntegrityError")

\* ---------------------------------------------------------------- C11
\* C11: with requests served one after the other, every new sale gets a
\* sequence of exactly 4 digits equal to the largest existing sequence of the
\* day plus one (1 when there is none), different from every existing
\* number; no creation fails on the number; no step changes the number of an
\* existing sale.
C11_NumeroSequentiel ==
    [][/\ \A id \in DOMAIN ventes :
             /\ id \in DOMAIN ventes'
             /\ ventes'[id].numero_vente = ventes[id].numero_vente
       /\ Len(ventes') > Len(ventes) =>
             LET n == ventes'[Len(ventes')].numero_vente
                 seqs == {Entier(ventes[id].numero_vente) : id \in DOMAIN ventes}
                 dernier == IF seqs = {} THEN 0
                            ELSE CHOOSE m \in seqs : \A k \in seqs : k <= m
             IN  /\ Len(n) = 4
                 /\ Entier(n) = dernier + 1
                 /\ ~NumeroPris(n)
       /\ \A r \in Requetes :
             requete[r].op = "vente_create" => resultat'[r] # "IntegrityError"]_vars

\* ---------------------------------------------------------------- C12
\* C12: two transfers are never each waiting for a Stock row the other has
\* locked.
C12_SansInterblocage ==
    \A r \in Requetes, r2 \in Requetes :
        (r # r2 /\ requete[r].op = "transferer" /\ requete[r2].op = "transferer")
            => ~(Bloque(r, r2) /\ Bloque(r2, r))

\* ---------------------------------------------------------------- C13
\* C13: when two replenishments q1 and q2 of the same row, whose quantity was
\* n, have both succeeded, the row holds n + q1 + q2 and their two ENTREE
\* movements chain: the first starts at n, the second starts where the first
\* ended and ends at the row's quantity.
C13_ReapproSerialise ==
    LET row == <<requete[1].produit, requete[1].magasin>>
        n == depart[row].quantite
        ms == SelectSeq(mouvements, LAMBDA m : m.req \in Requetes)
    IN  (/\ \A r \in Requetes :
               /\ requete[r].op = "reapprovisionner"
               /\ pc[r] = "fini" /\ resultat[r] = "OK"
         /\ <<requete[2].produit, requete[2].magasin>> = row)
        => /\ stocks[row].quantite = n + requete[1].quantite + requete[2].quantite
           /\ Len(ms) = 2
           /\ ms[1].quantite_avant = n
           /\ ms[2].quantite_avant = ms[1].quantite_apres
           /\ ms[2].quantite_apres = stocks[row].quantite

\* ---------------------------------------------------------------- C14
\* C14: a sale as create stores and returns it is VALIDEE if and only if its
\* montant_paye is at least its persisted montant_total, and EN_COURS otherwise.
C14_StatutSelonPaiement ==
    [][Len(ventes') > Len(ventes) =>
          LET v == ventes'[Len(ventes')]
          IN  /\ v.statut \in {"VALIDEE", "EN_COURS"}
              /\ v.statut = "VALIDEE" <=> v.montant_paye >= v.montant_total]_vars

\* ---------------------------------------------------------------- C15
\* The units of product p over the lines ls.
RECURSIVE QuantiteVendue(_, _)
QuantiteVendue(ls, p) ==
    IF ls = <<>> THEN 0
    ELSE (IF Head(ls).produit = p THEN Head(ls).quantite ELSE 0)
         + QuantiteVendue(Tail(ls), p)

\* C15: the step that commits a sale in store S lowers the quantity of every
\* (p, S) by the sum of the sale's line quantities for p, leaves one SORTIE
\* movement referring to the sale per line, and stores as montant_total the
\* sum of prix_unitaire * quantite - remise_ligne over the lines.
C15_EffetVente ==
    [][Len(ventes') > Len(ventes) =>
          LET id == Len(ventes')
              v == ventes'[id]
          IN  /\ \A p \in Produits :
                    stocks'[<<p, v.magasin>>].quantite =
                        stocks[<<p, v.magasin>>].quantite - QuantiteVendue(v.lignes, p)
              /\ Cardinality({k \in DOMAIN mouvements' :
                                 /\ mouvements'[k].type_mouvement = "SORTIE"
                                 /\ mouvements'[k].vente = id}) = Len(v.lignes)
              /\ v.montant_total = Somme(v.lignes)]_vars

\* ---------------------------------------------------------------- C16
\* C16: with requests served one after the other, the step in which a
\* transfer of q from S to S2 succeeds lowers (P, S) by q, raises (P, S2) by q
\* (a missing row counting as 0 and existing afterwards), touches no other
\* column and no other row, and appends exactly two movements: a TRANSFERT of
\* q on the source naming S2, then an ENTREE of q on the destination.
C16_EffetTransfert ==
    [][\A r \in Requetes :
          (requete[r].op = "transferer" /\ resultat'[r] = "OK" /\ resultat[r] # "OK") =>
              LET q == requete[r]
                  src == <<q.produit, q.magasin>>
                  dst == <<q.produit, q.magasin_destination>>
                  n == Len(mouvements)
              IN  /\ stocks'[src] = [stocks[src] EXCEPT !.quantite = @ - q.quantite]
                  /\ stocks'[dst] = [stocks[dst] EXCEPT !.existe = TRUE,
                                                        !.quantite = @ + q.quantite]
                  /\ \A row \in Rows \ {src, dst} : stocks'[row] = stocks[row]
                  /\ Len(mouvements') = n + 2
                  /\ SubSeq(mouvements', 1, n) = mouvements
                  /\ mouvements'[n + 1] =
                        [stock |-> src, type_mouvement |-> "TRANSFERT",
                         quantite |-> q.quantite,
                         quantite_avant |-> stocks[src].quantite,
                         quantite_apres |-> stocks[src].quantite - q.quantite,
                         magasin_destination |-> q.magasin_destination,
                         vente |-> 0, req |-> r]
                  /\ mouvements'[n + 2] =
                        [stock |-> dst, type_mouvement |-> "ENTREE",
                         quantite |-> q.quantite,
                         quantite_avant |-> stocks[dst].quantite,
                         quantite_apres |-> stocks[dst].quantite + q.quantite,
                         magasin_destination |-> "",
                         vente |-> 0, req |-> r]]_vars

\* A replenishment of (A, S1), then a transfer from it to a store that had no
\* row for A: the source keeps what is left, the destination holds the
\* transferred quantity.
C16_Temoin ==
    LET src == <<requete[2].produit, requete[2].magasin>>
        dst == <<requete[2].produit, requete[2].magasin_destination>>
    IN  /\ requete[1].op = "reapprovisionner" /\ resultat[1] = "OK"
        /\ <<requete[1].produit, requete[1].magasin>> = src
        /\ requete[2].op = "transferer" /\ resultat[2] = "OK"
        /\ ~depart[dst].existe
        /\ stocks[dst].quantite = requete[2].quantite
        /\ stocks[src].quantite =
              depart[src].quantite + requete[1].quantite - requete[2].quantite
        /\ stocks[src].quantite > 0

\* ---------------------------------------------------------------- C17
\* What an adjustment of request r does in the step that ends it: the row
\* holds the new quantity and a fresh last_inventory_date, every other column
\* and row is as before, and exactly one movement is appended, an AJUSTEMENT
\* of |new - before| from before to new.
EffetAjustement(r) ==
    LET q == requete[r]
        row == <<q.produit, q.magasin>>
        avant == stocks[row].quantite
        n == Len(mouvements)
    IN  /\ resultat'[r] = "OK"
        /\ stocks'[row].quantite = q.quantite
        /\ stocks'[row].last_inventory_date # stocks[row].last_inventory_date
        /\ stocks'[row].quantite_reservee = stocks[row].quantite_reservee
        /\ \A x \in Rows \ {row} : stocks'[x] = stocks[x]
        /\ Len(mouvements') = n + 1
        /\ SubSeq(mouvements', 1, n) = mouvements
        /\ mouvements'[n + 1] =
              [stock |-> row, type_mouvement |-> "AJUSTEMENT",
               quantite |-> IF q.quantite >= avant THEN q.quantite - avant
                            ELSE avant - q.quantite,
               quantite_avant |-> avant, quantite_apres |-> q.quantite,
               magasin_destination |-> "", vente |-> 0, req |-> r]

\* C17 as stated: every adjustment of an existing row to a new quantity >= 0,
\* with a reason, sets the quantity, stamps the inventory date and logs the
\* one AJUSTEMENT movement (requests served one after the other).
C17_AjustementToujours ==
    [][\A r \in Requetes :
          (requete[r].op = "ajuster" /\ pc[r] = "ajuster_ecrire" /\ pc'[r] = "fini")
              => EffetAjustement(r)]_vars

\* C17 amended: the same for every adjustment whose new quantity is at least
\* the row's quantite_reservee, the adjustment to the current quantity
\* included (movement of quantity 0).
C17_AjustementAdmis ==
    [][\A r \in Requetes :
          (/\ requete[r].op = "ajuster" /\ pc[r] = "ajuster_ecrire" /\ pc'[r] = "fini"
           /\ requete[r].quantite >=
                 stocks[<<requete[r].produit, requete[r].magasin>>].quantite_reservee)
              => EffetAjustement(r)]_vars

\* An adjustment to the quantity the row already had: a movement of 0 is
\* logged and the inventory date is stamped.
C17_Temoin ==
    \E r \in Requetes, k \in DOMAIN mouvements :
        /\ requete[r].op = "ajuster" /\ resultat[r] = "OK"
        /\ mouvements[k].req = r
        /\ mouvements[k].type_mouvement = "AJUSTEMENT"
        /\ mouvements[k].quantite = 0
        /\ mouvements[k].quantite_avant = requete[r].quantite
        /\ stocks[mouvements[k].stock].last_inventory_date # 0

\* ---------------------------------------------------------------- C18
\* C18: with requests served one after the other, a replenishment of q > 0
\* ends OK in a step that raises the row's quantity by exactly q (a missing
\* row is created and counts as 0), touches nothing else of the Stock table
\* and appends exactly one movement, an ENTREE of q from the previous quantity
\* to previous + q; a replenishment of q <= 0 fails; and no other step of a
\* replenishment changes a balance, a movement or an audit row.
C18_EffetReappro ==
    [][\A r \in Requetes :
          (requete[r].op = "reapprovisionner" /\ pc'[r] # pc[r]) =>
              LET q == requete[r]
                  row == <<q.produit, q.magasin>>
                  avant == stocks[row].quantite
                  n == Len(mouvements)
              IN  IF pc'[r] = "fini" /\ q.quantite > 0
                  THEN /\ resultat'[r] = "OK"
                       /\ stocks'[row] = [stocks[row] EXCEPT !.existe = TRUE,
                                                             !.quantite = @ + q.quantite]
                       /\ \A x \in Rows \ {row} : stocks'[x] = stocks[x]
                       /\ Len(mouvements') = n + 1
                       /\ SubSeq(mouvements', 1, n) = mouvements
                       /\ mouvements'[n + 1] =
                             [stock |-> row, type_mouvement |-> "ENTREE",
                              quantite |-> q.quantite, quantite_avant |-> avant,
                              quantite_apres |-> avant + q.quantite,
                              magasin_destination |-> "", vente |-> 0, req |-> r]
                  ELSE /\ pc'[r] = "fini" => resultat'[r] = "ValidationError"
                       /\ stocks' = stocks
                       /\ mouvements' = mouvements
                       /\ historique' = historique]_vars

\* A replenishment of a pair that had no row: the row exists with the
\* replenished quantity and the movement starts at 0.
C18_Temoin ==
    \E r \in Requetes, k \in DOMAIN mouvements :
        LET row == <<requete[r].produit, requete[r].magasin>>
        IN  /\ requete[r].op = "reapprovisionner" /\ resultat[r] = "OK"
            /\ ~depart[row].existe
            /\ mouvements[k].req = r /\ mouvements[k].stock = row
            /\ mouvements[k].quantite_avant = 0
            /\ stocks[row].existe
            /\ stocks[row].quantite = requete[r].quantite

\* ---------------------------------------------------------------- C19
\* C19: every movement in the log has quantite_apres - quantite_avant equal
\* to +quantite for ENTREE and RETOUR, to -quantite for SORTIE and TRANSFERT,
\* and of absolute value quantite (itself >= 0) for AJUSTEMENT; and no step
\* of a stock or sale operation changes or removes a logged movement.
C19_SigneEtPermanence ==
    [][/\ \A k \in DOMAIN mouvements' :
             LET m == mouvements'[k]
                 d == m.quantite_apres - m.quantite_avant
             IN  CASE m.type_mouvement \in {"ENTREE", "RETOUR"} -> d = m.quantite
                   [] m.type_mouvement \in {"SORTIE", "TRANSFERT"} -> d = -m.quantite
                   [] m.type_mouvement = "AJUSTEMENT" ->
                         m.quantite >= 0 /\ (d = m.quantite \/ d = -m.quantite)
                   [] OTHER -> FALSE
       /\ Len(mouvements') >= Len(mouvements)
       /\ SubSeq(mouvements', 1, Len(mouvements)) = mouvements]_vars

\* The log holds a downward adjustment and a movement of another kind logged
\* after it.
C19_Temoin ==
    \E k \in DOMAIN mouvements, j \in DOMAIN mouvements :
        /\ mouvements[k].type_mouvement = "AJUSTEMENT"
        /\ mouvements[k].quantite_apres < mouvements[k].quantite_avant
        /\ k < j
        /\ mouvements[j].type_mouvement \in {"RETOUR", "TRANSFERT", "SORTIE"}

\* ---------------------------------------------------------------- C20
\* C20: with requests served one after the other, a cancellation that has
\* passed its guards (sale found, not yet cancelled, reason given) always
\* succeeds, whether or not the Stock rows of its lines exist; the step that
\* commits it appends one RETOUR movement per line, referring to the sale,
\* from the row's quantity at that point (0 for a missing row, the previous
\* line's result for a repeated product) to that plus the line's quantity,
\* and leaves every row of the sale's lines existing with its quantity raised
\* by the lines' quantities; a cancellation that fails changes nothing.
C20_AnnulationCredite ==
    [][\A r \in Requetes :
          (requete[r].op = "annuler" /\ pc'[r] # pc[r]) =>
              /\ (pc[r] \in {"annuler_lire_stock", "annuler_ecrire_stock"}
                  /\ pc'[r] = "fini") => resultat'[r] = "OK"
              /\ resultat'[r] # "OK" => stocks' = stocks /\ mouvements' = mouvements
              /\ resultat'[r] = "OK" =>
                    LET id == requete[r].vente
                        v == ventes[id]
                        n == Len(mouvements)
                    IN  /\ Len(mouvements') = n + Len(v.lignes)
                        /\ SubSeq(mouvements', 1, n) = mouvements
                        /\ \A i \in DOMAIN v.lignes :
                              LET l == v.lignes[i]
                                  row == <<l.produit, v.magasin>>
                                  avant == stocks[row].quantite
                                           + QuantiteVendue(SubSeq(v.lignes, 1, i - 1),
                                                            l.produit)
                              IN  mouvements'[n + i] =
                                     [stock |-> row, type_mouvement |-> "RETOUR",
                                      quantite |-> l.quantite,
                                      quantite_avant |-> avant,
                                      quantite_apres |-> avant + l.quantite,
                                      magasin_destination |-> "",
                                      vente |-> id, req |-> r]
                        /\ \A row \in Rows :
                              LET rendu == IF row[2] = v.magasin
                                           THEN QuantiteVendue(v.lignes, row[1]) ELSE 0
                              IN  stocks'[row] =
                                     IF rendu = 0 THEN stocks[row]
                                     ELSE [stocks[row] EXCEPT !.existe = TRUE,
                                                              !.quantite = @ + rendu]]_vars

\* A sale whose Stock row is gone has been cancelled: the row exists again
\* with the line's quantity and the RETOUR movement goes from 0 to it.
C20_Temoin ==
    \E r \in Requetes, k \in DOMAIN mouvements :
        LET row == mouvements[k].stock
        IN  /\ requete[r].op = "annuler" /\ resultat[r] = "OK"
            /\ mouvements[k].req = r
            /\ mouvements[k].type_mouvement = "RETOUR"
            /\ mouvements[k].vente = requete[r].vente
            /\ mouvements[k].quantite_avant = 0
            /\ ~depart[row].existe
            /\ stocks[row].existe
            /\ stocks[row].quantite = mouvements[k].quantite


\* C21: a cancel request handled after another cancel of the same sale has
\* committed fails with VenteAnnuleeException, and its step leaves the stock
\* rows, the movements, the sale (flag, status, timestamp, actor, reason) and
\* the audit log exactly as the first cancellation set them.
C21_DejaAnnulee ==
    [][\A r \in Requetes : \A r2 \in Requetes \ {r} :
          ( /\ requete[r].op = "annuler" /\ requete[r2].op = "annuler"
            /\ requete[r].vente = requete[r2].vente
            /\ resultat[r2] = "OK"
            /\ pc[r] = "annuler" /\ pc'[r] # pc[r] )
          => /\ resultat'[r] = "VenteAnnulee"
             /\ UNCHANGED <<stocks, mouvements, ventes, historique>>]_vars

C21_Temoin ==
    \E r \in Requetes : \E r2 \in Requetes \ {r} :
       /\ requete[r].op = "annuler" /\ requete[r2].op = "annuler"
       /\ resultat[r2] = "OK" /\ resultat[r] = "VenteAnnulee"
       /\ ventes[requete[r].vente].est_annulee
       /\ ventes[requete[r].vente].annulee_par = r2

\* The rows of the audit log written by request r.
NbEvenements(r) ==
    Cardinality({i \in DOMAIN historique : historique[i].req = r})

\* C22: at every moment each replenish, transfer, adjust, create_sale and
\* cancel_sale request has exactly one audit event if its ledger writes are
\* committed and none otherwise, so that the audit events count the committed
\* logical operations.
C22_UnEvenementParOperation ==
    \A r \in Requetes :
        requete[r].op \in {"reapprovisionner", "transferer", "ajuster",
                           "vente_create", "annuler"}
        => NbEvenements(r) = (IF resultat[r] = "OK" THEN 1 ELSE 0)

\* C23: no step commits a stock row with a negative quantity, a negative
\* reserved quantity or more reserved than in stock; a request refused with a
\* ValidationError leaves stocks, movements, sales and audit log unchanged; and
\* an adjustment to a quantity below the reserved quantity is refused, the
\* quantity, last_inventory_date and the movements staying as they were.
C23_GardeInvariant ==
    [][/\ \A row \in Rows :
             stocks'[row].existe
             => /\ stocks'[row].quantite >= 0
                /\ stocks'[row].quantite_reservee >= 0
                /\ stocks'[row].quantite_reservee <= stocks'[row].quantite
       /\ \A r \in Requetes :
             /\ (resultat[r] = "" /\ resultat'[r] = "ValidationError")
                => UNCHANGED <<stocks, mouvements, ventes, historique>>
             /\ ( /\ pc[r] = "ajuster_ecrire" /\ pc'[r] # pc[r]
                  /\ requete[r].quantite < loc[r].stock.quantite_reservee )
                => /\ resultat'[r] = "ValidationError"
                   /\ UNCHANGED <<stocks, mouvements, historique>>]_vars

C23_Temoin ==
    \E r \in Requetes :
       LET row == <<requete[r].produit, requete[r].magasin>>
       IN  /\ requete[r].op = "ajuster"
           /\ resultat[r] = "ValidationError"
           /\ requete[r].quantite >= 0
           /\ stocks[row].existe
           /\ requete[r].quantite < stocks[row].quantite_reservee
           /\ stocks[row].last_inventory_date = 0
           /\ \A i \in DOMAIN mouvements : mouvements[i].req # r

\* C24: a transfer whose destination store is its source store is refused
\* with a ValidationError at its first step, whatever the quantity, and that
\* step changes no stock row and logs no movement and no audit event.
C24_TransfertMemeMagasin ==
    [][\A r \in Requetes :
          ( /\ pc[r] = "transferer" /\ pc'[r] # pc[r]
            /\ requete[r].magasin = requete[r].magasin_destination )
          => /\ resultat'[r] = "ValidationError"
             /\ pc'[r] = "fini"
             /\ UNCHANGED <<stocks, mouvements, historique>>]_vars

C24_Temoin ==
    \E r \in Requetes :
       /\ requete[r].op = "transferer"
       /\ requete[r].magasin = requete[r].magasin_destination
       /\ requete[r].quantite >= 1
       /\ stocks[<<requete[r].produit, requete[r].magasin>>].existe
       /\ resultat[r] = "ValidationError"
       /\ \A i \in DOMAIN mouvements : mouvements[i].req # r

\* C25: a well-formed transfer whose source row is missing, or whose source
\* has fewer available units (quantite - quantite_reservee) than requested, is
\* refused with StockInsuffisantException at its first step; that step
\* creates and changes no stock row (the destination row is not created) and
\* logs no movement and no audit event.
C25_TransfertInsuffisant ==
    [][\A r \in Requetes :
          LET q == requete[r]
              src == <<q.produit, q.magasin>>
          IN  ( /\ pc[r] = "transferer" /\ pc'[r] # pc[r]
                /\ q.quantite >= 1 /\ q.magasin # q.magasin_destination
                /\ \/ ~stocks[src].existe
                   \/ stocks[src].quantite - stocks[src].quantite_reservee
                         < q.quantite )
              => /\ resultat'[r] = "StockInsuffisant"
                 /\ pc'[r] = "fini"
                 /\ UNCHANGED <<stocks, mouvements, historique>>]_vars

\* One transfer refused for a missing source, another for reserved units.
C25_Temoin ==
    \E r \in Requetes : \E r2 \in Requetes \ {r} :
       LET q == requete[r]
           q2 == requete[r2]
           src2 == stocks[<<q2.produit, q2.magasin>>]
       IN  /\ q.op = "transferer" /\ q2.op = "transferer"
           /\ resultat[r] = "StockInsuffisant" /\ resultat[r2] = "StockInsuffisant"
           /\ ~stocks[<<q.produit, q.magasin>>].existe
           /\ src2.existe /\ src2.quantite >= q2.quantite
           /\ src2.quantite - src2.quantite_reservee < q2.quantite
           /\ ~stocks[<<q2.produit, q2.magasin_destination>>].existe
           /\ mouvements = <<>>

\* C26: when a sale has just been committed, each of its lines stores the unit
\* price the request gave for it, or the product's sale price when the request
\* gave none, and the sale's total is the sum of the line amounts computed
\* from the stored prices.
C26_PrixUnitaireStocke ==
    \A r \in Requetes : \A v \in DOMAIN ventes :
        ( /\ requete[r].op = "vente_create" /\ pc[r] = "vente_historique"
          /\ ventes[v].creee_par = r )
        => /\ Len(ventes[v].lignes) = Len(requete[r].lignes)
           /\ \A k \in DOMAIN ventes[v].lignes :
                 ventes[v].lignes[k].prix_unitaire =
                    (IF requete[r].lignes[k].prix_unitaire # 0
                     THEN requete[r].lignes[k].prix_unitaire
                     ELSE prix_vente[requete[r].lignes[k].produit])
           /\ ventes[v].montant_total = Somme(ventes[v].lignes)

\* ------------------------------------ a price change, then a line re-saved
\* Produit.prix_achat of the seeded products.
PrixAchat == [p \in Produits |-> IF p = "A" THEN 8 ELSE 4]

\* ProduitViewSet.update: ProduitSerializer.validate refuses a sale price
\* below the purchase price; perform_update saves and writes PRODUIT_MODIFIE.
ProduitUpdate(r) ==
    LET q == requete[r]
    IN  /\ pc[r] = "produit_update"
        /\ IF \/ q.prix_vente < 0
              \/ (q.prix_vente # 0 /\ PrixAchat[q.produit] # 0
                  /\ q.prix_vente < PrixAchat[q.produit])
           THEN /\ Echec(r, "ValidationError")
                /\ UNCHANGED prix_vente
           ELSE /\ prix_vente' = [prix_vente EXCEPT ![q.produit] = q.prix_vente]
                /\ Publier(r, [TxVide EXCEPT !.hist =
                       <<[type_action |-> "PRODUIT_MODIFIE", req |-> r]>>], "OK")
        /\ UNCHANGED <<depart, requete, loc>>

\* LigneVente.save on the stored line k of a sale: prix_unitaire is set from
\* produit.prix_vente, the row is written, then vente.update_montant_total().
LigneVente_save_existante(vente, k) ==
    LET lignes == [vente.lignes EXCEPT
                      ![k].prix_unitaire = prix_vente[vente.lignes[k].produit]]
    IN  [vente EXCEPT !.lignes = lignes, !.montant_total = Somme(lignes)]

\* A stored line is loaded and saved again (LigneVente.objects.get, save()).
LigneVenteSave(r) ==
    LET q == requete[r]
    IN  /\ pc[r] = "ligne_save"
        /\ IF q.vente \notin DOMAIN ventes
           THEN Echec(r, "DoesNotExist")
           ELSE IF q.ligne \notin DOMAIN ventes[q.vente].lignes
           THEN Echec(r, "DoesNotExist")
           ELSE Publier(r, [TxVide EXCEPT !.maj =
                   (q.vente :> LigneVente_save_existante(ventes[q.vente], q.ligne))],
                   "OK")
        /\ UNCHANGED <<fixe, requete, loc>>

\* A sale, its cancellation, a new price for product A and the re-save of the
\* first line of sale 1.
MenuC27 ==
    {[Req("vente_create", "A", "S1") EXCEPT
         !.lignes = <<Ligne("A", 1)>>, !.montant_paye = 10],
     [Req("annuler", "A", "S1") EXCEPT !.vente = 1, !.motif = "erreur"],
     [Req("ligne_save", "A", "S1") EXCEPT !.vente = 1, !.ligne = 1]}
    \cup {[Req("produit_update", "A", "S1") EXCEPT !.prix_vente = x] : x \in {7, 12}}

NextC27 ==
    \/ Debut(1, MenuC27)
    \/ pc[1] = "fini" /\ Debut(2, MenuC27)
    \/ \E r \in Requetes :
        \/ VenteVerifier(r) \/ VenteNumeroter(r) \/ VenteInserer(r)
        \/ VenteLigne(r) \/ VenteHistorique(r)
        \/ AnnulerLire(r) \/ AnnulerLireStock(r) \/ AnnulerEcrireStock(r)
        \/ ProduitUpdate(r) \/ LigneVenteSave(r)

SpecC27 == InitSeq /\ [][NextC27]_vars

\* C27: once a product's sale price differs from the price it had when the
\* sale was made, no step changes the unit price of a stored sale line or the
\* total of a stored sale.
C27_PrixFige ==
    [][(\E p \in Produits : prix_vente[p] # PrixInitial[p])
       => \A v \in DOMAIN ventes :
             /\ v \in DOMAIN ventes'
             /\ ventes'[v].montant_total = ventes[v].montant_total
             /\ Len(ventes'[v].lignes) = Len(ventes[v].lignes)
             /\ \A k \in DOMAIN ventes[v].lignes :
                   ventes'[v].lignes[k].prix_unitaire
                      = ventes[v].lignes[k].prix_unitaire]_vars

\* The movements of a stock row, in the order of their creation.
MouvementsDe(row) == SelectSeq(mouvements, LAMBDA m : m.stock = row)

\* C28: for every stock row with at least one movement, each movement starts
\* from the quantity the previous one ended with, and the latest movement
\* ends with the row's current quantity.
C28_ChaineDesMouvements ==
    \A row \in Rows :
        LET ms == MouvementsDe(row)
        IN  ms # <<>>
            => /\ \A i \in 2..Len(ms) :
                     ms[i].quantite_avant = ms[i - 1].quantite_apres
               /\ stocks[row].existe
               /\ ms[Len(ms)].quantite_apres = stocks[row].quantite

\* C29: in every state a sale is flagged est_annulee exactly when its statut
\* is ANNULEE, and a sale whose statut is ANNULEE carries the date, the reason
\* and the author of its cancellation and one RETOUR movement for each of its
\* lines.
C29_DrapeauEtStatut ==
    \A v \in DOMAIN ventes :
        /\ ventes[v].est_annulee <=> (ventes[v].statut = "ANNULEE")
        /\ ventes[v].statut = "ANNULEE"
           => /\ ventes[v].date_annulation # 0
              /\ ventes[v].motif_annulation # ""
              /\ ventes[v].annulee_par # 0
              /\ \A k \in DOMAIN ventes[v].lignes :
                    \E i \in DOMAIN mouvements :
                       /\ mouvements[i].type_mouvement = "RETOUR"
                       /\ mouvements[i].vente = v
                       /\ mouvements[i].stock =
                             <<ventes[v].lignes[k].produit, ventes[v].magasin>>

\* The stock rows a sale request or a cancel request may touch: the rows of
\* the sale's store for the products of the sale's lines.
Portee(q) ==
    IF q.op = "vente_create"
    THEN {<<q.lignes[k].produit, q.magasin>> : k \in DOMAIN q.lignes}
    ELSE IF q.vente \in DOMAIN ventes
    THEN {<<ventes[q.vente].lignes[k].produit, ventes[q.vente].magasin>> :
             k \in DOMAIN ventes[q.vente].lignes}
    ELSE {}

\* C30: every step of a create_sale or cancel_sale request leaves the stock
\* rows of the other stores and of the products that are not in the sale, and
\* the movements of those rows, as they were; and a line of a new sale is
\* refused for insufficient stock exactly when the row of its product in the
\* sale's own store is missing or has fewer available units than the line.
C30_EffetsParMagasin ==
    [][\A r \in Requetes :
          LET q == requete[r]
          IN  ( /\ q.op \in {"vente_create", "annuler"}
                /\ pc[r] \notin {"repos", "fini"} )
              => /\ \A row \in Rows \ Portee(q) :
                       /\ stocks'[row] = stocks[row]
                       /\ MouvementsDe(row)' = MouvementsDe(row)
                 /\ ( /\ pc[r] = "vente_create"
                      /\ LignesValides(q.lignes) /\ q.montant_paye >= 0 )
                    => LET l == q.lignes[loc[r].i]
                           s == stocks[<<l.produit, q.magasin>>]
                       IN  (resultat'[r] = "StockInsuffisant")
                           <=> \/ ~s.existe
                               \/ s.quantite - s.quantite_reservee < l.quantite]_vars

\* A sale of product A in S1 and its cancellation, both answered OK, with
\* rows of product A in S2 and of product B in S1 standing untouched.
C30_Temoin ==
    \E r \in Requetes : \E r2 \in Requetes \ {r} :
       /\ requete[r].op = "vente_create" /\ resultat[r] = "OK"
       /\ requete[r2].op = "annuler" /\ resultat[r2] = "OK"
       /\ \E i \in DOMAIN mouvements :
             mouvements[i].req = r /\ mouvements[i].stock = <<"A", "S1">>
       /\ \E i \in DOMAIN mouvements :
             mouvements[i].req = r2 /\ mouvements[i].stock = <<"A", "S1">>
       /\ stocks[<<"A", "S2">>].existe /\ stocks[<<"A", "S2">>] = depart[<<"A", "S2">>]
       /\ stocks[<<"B", "S1">>].existe /\ stocks[<<"B", "S1">>] = depart[<<"B", "S1">>]
       /\ MouvementsDe(<<"A", "S2">>) = <<>> /\ MouvementsDe(<<"B", "S1">>) = <<>>
====
